---- MODULE Spec2Model ----
(***************************************************************************)
(* A model of the instapaper client library (src/src/lib.rs): the token    *)
(* exchange `authenticate`, the dispatch methods of `Client` and the       *)
(* shared `signed_request`.                                                *)
(*                                                                         *)
(* The library keeps no state between calls: a call takes a Client value   *)
(* and its arguments, sends a request, and maps the response to a result.  *)
(* The state of the model is therefore the state of ONE call in progress:  *)
(* its Client, the requests it has sent, the response it got, how far it   *)
(* is (pc) and its outcome.                                                *)
(*                                                                         *)
(* A text (a response body of the token exchange, a token) is a sequence   *)
(* of lexemes: every delimiter the parsers look at ("&", "=", "#", "+",    *)
(* " ", newline, a percent escape) is a lexeme of its own, and a run of    *)
(* other characters ("oauth_token", "walrus") is one lexeme.               *)
(***************************************************************************)
EXTENDS Integers, Sequences, FiniteSets, TLC

VARIABLES
    pc,         \* where the call is: "idle", "inflight", "decode", "set_secret", "done", "panicked"
    op,         \* the function called: "authenticate", "verify", "archive", "add", "bookmarks_in", "bookmarks"
    args,       \* the arguments of the call
    client,     \* the Client of the call: `self`, or the local `client` of authenticate
    requests,   \* the HTTP requests the call has handed to the transport, in order
    response,   \* the response signed_request got: [status, body], or NoResponse
    bodyRead,   \* whether response.text() / response.json() has read the body for parsing
    result      \* the outcome of the call

vars == <<pc, op, args, client, requests, response, bodyRead, result>>

-----------------------------------------------------------------------------
(* Bounds of the model *)

\* a token-exchange body is at most this many "&"-separated pieces
MaxPieces == 3
\* a JSON array in a body has at most this many elements
MaxItems == 2

-----------------------------------------------------------------------------
(* Option<String> *)

NoneOpt == [some |-> FALSE, val |-> <<>>]
Some(v) == [some |-> TRUE, val |-> v]

\* Option::unwrap_or(&empty)
UnwrapOr(o, d) == IF o.some THEN o.val ELSE d

-----------------------------------------------------------------------------
(* Texts and the parsing of the token-exchange body *)

\* position of the first d in s, 0 when there is none
FirstIdx(s, d) ==
    IF \E i \in 1..Len(s) : s[i] = d
    THEN CHOOSE i \in 1..Len(s) : s[i] = d /\ \A j \in 1..(i - 1) : s[j] # d
    ELSE 0

RECURSIVE Split(_, _)
\* the pieces of s between the occurrences of d
Split(s, d) ==
    LET i == FirstIdx(s, d)
    IN  IF i = 0 THEN <<s>>
        ELSE <<SubSeq(s, 1, i - 1)>> \o Split(SubSeq(s, i + 1, Len(s)), d)

RECURSIVE Filter(_, _)
\* the elements of s that are not in the set drop
Filter(s, drop) ==
    IF s = <<>> THEN <<>>
    ELSE IF Head(s) \in drop THEN Filter(Tail(s), drop)
    ELSE <<Head(s)>> \o Filter(Tail(s), drop)

RECURSIVE TrimEnd(_)
\* Url::parse trims trailing C0-control characters and spaces from its input
TrimEnd(s) ==
    IF s # <<>> /\ s[Len(s)] \in {" ", "\n"} THEN TrimEnd(SubSeq(s, 1, Len(s) - 1))
    ELSE s

\* let qline = format!("https://junk.com/?{}", qline);
JunkUrl(body) == <<"https://junk.com/?">> \o body

\* Url::parse(&qline) followed by url.query(): the input loses its trailing
\* blanks and every tab and newline, and the query is what stands between the
\* "?" and the first "#" (the rest is the fragment).
UrlQuery(qline) ==
    LET input == Filter(TrimEnd(qline), {"\n"})
        rest  == Tail(input)
        h     == FirstIdx(rest, "#")
    IN  IF h = 0 THEN rest ELSE SubSeq(rest, 1, h - 1)

\* form_urlencoded decoding of one lexeme: "+" is a space, a percent escape
\* is the character it encodes
DecodeLexeme(x) ==
    CASE x = "+"   -> " "
      [] x = "%23" -> "#"
      [] OTHER     -> x

PercentDecode(s) == [i \in 1..Len(s) |-> DecodeLexeme(s[i])]

\* one piece of the query: the name up to the first "=", the value after it
\* (empty when the piece has no "=")
ParsePair(piece) ==
    LET e == FirstIdx(piece, "=")
    IN  IF e = 0 THEN [name |-> PercentDecode(piece), value |-> <<>>]
        ELSE [name  |-> PercentDecode(SubSeq(piece, 1, e - 1)),
              value |-> PercentDecode(SubSeq(piece, e + 1, Len(piece)))]

\* url.query_pairs(): the query split at "&", empty pieces skipped
QueryPairs(query) ==
    LET pieces == Filter(Split(query, "&"), {<<>>})
    IN  [i \in 1..Len(pieces) |-> ParsePair(pieces[i])]

\* HashMap::from_iter(pairs).get(name): a later pair replaces an earlier one
\* of the same name
MapGet(pairs, name) ==
    LET hits == {i \in 1..Len(pairs) : pairs[i].name = name}
    IN  IF hits = {} THEN NoneOpt
        ELSE Some(pairs[CHOOSE i \in hits : \A j \in hits : j <= i].value)

\* lines 175-177 of authenticate
query_params(body) == QueryPairs(UrlQuery(JunkUrl(body)))

-----------------------------------------------------------------------------
(* JSON documents and their decoding (serde_json with the derived Deserialize) *)

\* A response body read as JSON: text that is no JSON at all, or a JSON value.
\* Every value has the same five fields; t says which of them carries it.
JInvalid    == [t |-> "invalid", s |-> "", n |-> 0, items |-> <<>>, fields |-> <<>>]
JNull       == [t |-> "null",    s |-> "", n |-> 0, items |-> <<>>, fields |-> <<>>]
JStr(x)     == [t |-> "str",     s |-> x,  n |-> 0, items |-> <<>>, fields |-> <<>>]
JInt(k)     == [t |-> "int",     s |-> "", n |-> k, items |-> <<>>, fields |-> <<>>]
\* a number with a fraction or exponent, kept as its text
JFloat(x)   == [t |-> "float",   s |-> x,  n |-> 0, items |-> <<>>, fields |-> <<>>]
JArr(xs)    == [t |-> "arr",     s |-> "", n |-> 0, items |-> xs,   fields |-> <<>>]
JObj(fs)    == [t |-> "obj",     s |-> "", n |-> 0, items |-> <<>>, fields |-> fs]

\* the outcome of decoding: a value, or serde's error
Decoded(v)  == [ok |-> TRUE, val |-> v]
DecodeFail  == [ok |-> FALSE, val |-> <<>>]

Has(j, f)    == j.t = "obj" /\ f \in DOMAIN j.fields
\* a field of type String
IsStr(j, f)  == Has(j, f) /\ j.fields[f].t = "str"
\* a field of type i64: a JSON integer, never a number with a fraction
IsI64(j, f)  == Has(j, f) /\ j.fields[f].t = "int"
\* a field of type f64: any JSON number
IsF64(j, f)  == Has(j, f) /\ j.fields[f].t \in {"int", "float"}
\* a field of type Option<String>: absent, null or a string
IsOptStr(j, f) == j.t = "obj" /\ (f \in DOMAIN j.fields => j.fields[f].t \in {"null", "str"})

\* the f64 a JSON number decodes to
F64(j) == [int |-> j.t = "int", n |-> j.n, text |-> j.s]

\* struct Bookmark
DecodeBookmark(j) ==
    IF /\ IsStr(j, "title") /\ IsStr(j, "hash") /\ IsI64(j, "bookmark_id")
       /\ IsF64(j, "progress_timestamp") /\ IsStr(j, "description") /\ IsStr(j, "url")
       /\ IsF64(j, "time") /\ IsStr(j, "starred") /\ IsStr(j, "type")
       /\ IsStr(j, "private_source")
    THEN Decoded([title              |-> j.fields["title"].s,
                  hash               |-> j.fields["hash"].s,
                  bookmark_id        |-> j.fields["bookmark_id"].n,
                  progress_timestamp |-> F64(j.fields["progress_timestamp"]),
                  description        |-> j.fields["description"].s,
                  url                |-> j.fields["url"].s,
                  time               |-> F64(j.fields["time"]),
                  starred            |-> j.fields["starred"].s,
                  kind               |-> j.fields["type"].s,
                  private_source     |-> j.fields["private_source"].s])
    ELSE DecodeFail

\* struct User
DecodeUser(j) ==
    IF /\ IsStr(j, "username") /\ IsI64(j, "user_id") /\ IsStr(j, "type")
       /\ IsStr(j, "subscription_is_active")
    THEN Decoded([username     |-> j.fields["username"].s,
                  user_id      |-> j.fields["user_id"].n,
                  kind         |-> j.fields["type"].s,
                  subscription |-> j.fields["subscription_is_active"].s])
    ELSE DecodeFail

\* struct Highlight
DecodeHighlight(j) ==
    IF /\ IsI64(j, "highlight_id") /\ IsI64(j, "bookmark_id") /\ IsStr(j, "text")
       /\ IsOptStr(j, "note") /\ IsI64(j, "time") /\ IsI64(j, "position")
       /\ IsStr(j, "type")
    THEN Decoded([highlight_id |-> j.fields["highlight_id"].n,
                  bookmark_id  |-> j.fields["bookmark_id"].n,
                  text         |-> j.fields["text"].s,
                  note         |-> IF "note" \in DOMAIN j.fields /\ j.fields["note"].t = "str"
                                   THEN Some(j.fields["note"].s) ELSE NoneOpt,
                  time         |-> j.fields["time"].n,
                  position     |-> j.fields["position"].n,
                  kind         |-> j.fields["type"].s])
    ELSE DecodeFail

DecodeI64(j) == IF j.t = "int" THEN Decoded(j.n) ELSE DecodeFail

\* T::deserialize for the element types of the arrays
DecodeAs(ty, j) ==
    CASE ty = "Bookmark"  -> DecodeBookmark(j)
      [] ty = "User"      -> DecodeUser(j)
      [] ty = "Highlight" -> DecodeHighlight(j)
      [] ty = "i64"       -> DecodeI64(j)

\* Vec<T>: a JSON array every element of which decodes as T
DecodeVec(j, ty) ==
    IF j.t = "arr" /\ \A i \in 1..Len(j.items) : DecodeAs(ty, j.items[i]).ok
    THEN Decoded([i \in 1..Len(j.items) |-> DecodeAs(ty, j.items[i]).val])
    ELSE DecodeFail

\* struct List; delete_ids is #[serde(default)]: absent, it is the empty Vec
DecodeList(j) ==
    IF /\ Has(j, "bookmarks") /\ DecodeVec(j.fields["bookmarks"], "Bookmark").ok
       /\ Has(j, "user") /\ DecodeUser(j.fields["user"]).ok
       /\ Has(j, "highlights") /\ DecodeVec(j.fields["highlights"], "Highlight").ok
       /\ (Has(j, "delete_ids") => DecodeVec(j.fields["delete_ids"], "i64").ok)
    THEN Decoded([bookmarks  |-> DecodeVec(j.fields["bookmarks"], "Bookmark").val,
                  user       |-> DecodeUser(j.fields["user"]).val,
                  highlights |-> DecodeVec(j.fields["highlights"], "Highlight").val,
                  delete_ids |-> IF Has(j, "delete_ids")
                                 THEN DecodeVec(j.fields["delete_ids"], "i64").val
                                 ELSE <<>>])
    ELSE DecodeFail


-----------------------------------------------------------------------------
(* Values of the library *)

\* struct Client
Client(ck, cs, ok, os) ==
    [consumer_key |-> ck, consumer_secret |-> cs, oauth_key |-> ok, oauth_secret |-> os]

NoValue    == <<>>
NoResponse == [status |-> 0, body |-> <<>>]

\* Result<T>: Ok(value) or Err(error); a panic is no Result at all
NoResult   == [kind |-> "None",  err |-> "", status |-> 0, msg |-> <<>>, value |-> NoValue]
Ok(v)      == [kind |-> "Ok",    err |-> "", status |-> 0, msg |-> <<>>, value |-> v]
Err(e, st, m) == [kind |-> "Err", err |-> e, status |-> st, msg |-> m, value |-> NoValue]
Panic      == [kind |-> "Panic", err |-> "", status |-> 0, msg |-> <<>>, value |-> NoValue]

\* a HashMap<&str, Cow<str>> of request parameters
EmptyParams == [k \in {} |-> ""]

-----------------------------------------------------------------------------
(* signed_request *)

\* OauthToken with the fault of passing the token whether or not oauth_key is present
OauthTokenAlways(c) ==
    [some |-> TRUE, key |-> UnwrapOr(c.oauth_key, <<>>),
     secret |-> UnwrapOr(c.oauth_secret, <<>>)]

\* lines 251-259: the token is built from the oauth fields, each replaced by
\* the empty string when absent, and is used exactly when oauth_key is present
OauthToken(c) ==
    IF c.oauth_key.some
    THEN [some |-> TRUE, key |-> UnwrapOr(c.oauth_key, <<>>),
          secret |-> UnwrapOr(c.oauth_secret, <<>>)]
    ELSE [some |-> FALSE, key |-> <<>>, secret |-> <<>>]

\* const URL (the build that is not the test build)
URL == "https://www.instapaper.com"

\* oauth1::authorize(method, url, consumer, token, params): the header is a
\* function of these five (and of a fresh nonce and timestamp, not modelled)
Authorize(method, url, consumer, token, params) ==
    [method |-> method, url |-> url, consumer |-> consumer, token |-> token,
     params |-> params]

\* lines 249 and 261-276: the POST request with the form body and the
\* Authorization header
BuildRequest(action, params, c) ==
    LET url == <<URL, "/api/1.1/", action>>
    IN  [method |-> "POST", url |-> url, form |-> params,
         authorization |->
             Authorize("POST", url,
                       [key |-> c.consumer_key, secret |-> c.consumer_secret],
                       OauthToken(c), params)]

\* Response::error_for_status(): an error for a client-error (4xx) or
\* server-error (5xx) status, the response itself for any other status
error_for_status(status) == status \in 400..599

\* Try with the fault of sending the request once more before giving up
TryAgain(reqs, e) ==
    IF Len(reqs) < 2
    THEN [pc |-> "inflight", requests |-> reqs \o reqs, result |-> NoResult]
    ELSE [pc |-> "done", requests |-> reqs, result |-> e]

\* The `?` operator: the error is returned to the caller at once. From the
\* requests sent so far and the error, the call's next position, its requests
\* and its outcome.
Try(reqs, e) == [pc |-> "done", requests |-> reqs, result |-> e]

-----------------------------------------------------------------------------
(* Parameters of each call *)

\* authenticate, lines 158-161
AuthParams(username, password) ==
    [k \in {"x_auth_username", "x_auth_password", "x_auth_mode"} |->
        CASE k = "x_auth_username" -> username
          [] k = "x_auth_password" -> password
          [] OTHER                 -> "client_auth"]

\* archive, lines 202-204
ArchiveParams(bookmark_id) == [k \in {"bookmark_id"} |-> ToString(bookmark_id)]

\* BookmarksInParams with the fault of always listing the unread folder
BookmarksInParamsUnread(folder) ==
    [k \in {"limit", "folder_id"} |-> IF k = "limit" THEN "500" ELSE "unread"]

\* bookmarks_in, lines 213-215
BookmarksInParams(folder) ==
    [k \in {"limit", "folder_id"} |-> IF k = "limit" THEN "500" ELSE folder]

\* AddParams with the fault of sending title even when it is empty
AddParamsAlways(url, title, description) ==
    [k \in {"url", "title"} \cup (IF description # "" THEN {"description"} ELSE {}) |->
        CASE k = "url"   -> url
          [] k = "title" -> title
          [] OTHER       -> description]

\* add, lines 228-235
AddParams(url, title, description) ==
    [k \in {"url"} \cup (IF title # "" THEN {"title"} ELSE {})
                   \cup (IF description # "" THEN {"description"} ELSE {}) |->
        CASE k = "url"   -> url
          [] k = "title" -> title
          [] OTHER       -> description]

-----------------------------------------------------------------------------
(* Decoding the response *)

OAUTH_TOKEN        == <<"oauth_token">>
OAUTH_TOKEN_SECRET == <<"oauth_token_secret">>

\* format_err!("oauth_tokens not both in response: {}", qline), where qline
\* is the junk URL built from the body (line 175 shadows the body)
IncompleteMessage(body) == <<"oauth_tokens not both in response: ">> \o JunkUrl(body)

\* authenticate, lines 179-182: whether both tokens are in the parsed pairs
BothTokens(pairs) ==
    ~ (~MapGet(pairs, OAUTH_TOKEN).some \/ ~MapGet(pairs, OAUTH_TOKEN_SECRET).some)

\* SetOauthKey with the fault of taking the value of the other field
SetOauthKeyFromSecret(c, pairs) ==
    [c EXCEPT !.oauth_key = Some(MapGet(pairs, OAUTH_TOKEN_SECRET).val)]

\* authenticate, line 185
SetOauthKey(c, pairs) == [c EXCEPT !.oauth_key = Some(MapGet(pairs, OAUTH_TOKEN).val)]

\* SetOauthSecret with the fault of leaving the secret unset
SetOauthSecretNever(c, pairs) == c

\* authenticate, line 186
SetOauthSecret(c, pairs) ==
    [c EXCEPT !.oauth_secret = Some(MapGet(pairs, OAUTH_TOKEN_SECRET).val)]

\* users[0].clone() / bookmarks[0].clone(): indexing an empty Vec panics
FirstElement(vec) == IF Len(vec) = 0 THEN Panic ELSE Ok(vec[1])

\* the element type of the Vec each single-item method decodes
ItemType(o) == IF o = "verify" THEN "User" ELSE "Bookmark"

\* verify, archive, add: response.json()? into a Vec, then its first element
DecodeSingle(o, body) ==
    LET vec == DecodeVec(body, ItemType(o))
    IN  IF vec.ok THEN FirstElement(vec.val) ELSE Err("DecodeError", 0, <<>>)

\* bookmarks_in: response.json().map_err(..) into a List, returned as it is
DecodeListBody(body) ==
    LET list == DecodeList(body)
    IN  IF list.ok THEN Ok(list.val) ELSE Err("DecodeError", 0, <<>>)


-----------------------------------------------------------------------------
(* What the caller and the server may supply *)

\* the arguments of the calls of authenticate
Logins ==
    { [username |-> "username", password |-> "password",
       consumer_key |-> "key", consumer_secret |-> "secret"],
      [username |-> "someone", password |-> "hunter2",
       consumer_key |-> "other", consumer_secret |-> "shh"] }
ConsumerKeys    == {"key"}
ConsumerSecrets == {"secret"}
BookmarkIds     == {7, -3}
Folders         == {"unread", "archive"}
Urls            == {"https://sirupsen.com/read", ""}
Titles          == {"", "How I Read"}
Descriptions    == {"", "notes"}

\* Client is a struct of public fields: a caller may build any of these
OptKeys    == {NoneOpt, Some(<<"token">>)}
OptSecrets == {NoneOpt, Some(<<"secret">>)}
Clients  == {Client(ck, cs, ok, os) :
                ck \in ConsumerKeys, cs \in ConsumerSecrets, ok \in OptKeys, os \in OptSecrets}

\* the statuses a response may reach signed_request with (reqwest follows the
\* redirects 301, 302, 303, 307 and 308 itself)
Statuses == {200, 201, 300, 304, 404, 500}

\* the "&"-separated pieces a token-exchange body is made of
Pieces ==
    { <<"oauth_token", "=", "token">>,
      <<"oauth_token_secret", "=", "secret">>,
      <<"oauth_token", "=", "1">>,
      <<"oauth_noep", "=", "wal", "%23", "rus">>,
      <<"badqline">>,
      <<"oauth_token">>,
      <<"oauth_token_secret">>,
      <<"oauth_noep", "=", "a", "#", "b">>,
      <<"oauth_token_secret", "=", "se", "+", "cret", "\n">>,
      <<>> }

RECURSIVE Join(_)
\* the pieces with "&" between them
Join(ps) ==
    IF ps = <<>> THEN <<>>
    ELSE IF Len(ps) = 1 THEN ps[1]
    ELSE ps[1] \o <<"&">> \o Join(Tail(ps))

\* the bodies the token-exchange endpoint may answer with
TextBodies ==
    {Join(ps) : ps \in UNION {[1..n -> Pieces] : n \in 0..MaxPieces}}

\* a Bookmark as the server serialises it
BookmarkJson(title) ==
    JObj([title |-> JStr(title), hash |-> JStr("h"), bookmark_id |-> JInt(7),
          progress_timestamp |-> JFloat("0.5"), description |-> JStr(""),
          url |-> JStr("https://sirupsen.com/read"), time |-> JInt(0),
          starred |-> JStr("0"), type |-> JStr("bookmark"),
          private_source |-> JStr("")])

UserJson ==
    JObj([username |-> JStr("username"), user_id |-> JInt(1), type |-> JStr("user"),
          subscription_is_active |-> JStr("1")])

HighlightJson ==
    JObj([highlight_id |-> JInt(2), bookmark_id |-> JInt(7), text |-> JStr("quote"),
          time |-> JInt(3), position |-> JInt(0), type |-> JStr("highlight")])

\* the object j without its field f
Without(j, f) == JObj([g \in DOMAIN j.fields \ {f} |-> j.fields[g]])
\* the object j with its field f set to v
With(j, f, v) == JObj([g \in DOMAIN j.fields \cup {f} |-> IF g = f THEN v ELSE j.fields[g]])

\* what an array of a body may hold: good items, and items of the wrong shape
Items ==
    { BookmarkJson("How I Read"),
      With(BookmarkJson("other"), "extra", JNull),
      Without(BookmarkJson("How I Read"), "hash"),
      With(BookmarkJson("How I Read"), "bookmark_id", JStr("7")),
      UserJson }

Arrays == {JArr(xs) : xs \in UNION {[1..n -> Items] : n \in 0..MaxItems}}

ListJson ==
    JObj([bookmarks  |-> JArr(<<BookmarkJson("How I Read")>>),
          user       |-> UserJson,
          highlights |-> JArr(<<HighlightJson, With(HighlightJson, "note", JStr("n"))>>),
          delete_ids |-> JArr(<<JInt(4), JInt(5)>>)])

Objects ==
    { ListJson,
      Without(ListJson, "delete_ids"),
      Without(ListJson, "user"),
      With(ListJson, "delete_ids", JArr(<<JStr("4")>>)),
      With(ListJson, "highlights", JArr(<<With(HighlightJson, "time", JFloat("3.5"))>>)),
      With(With(With(ListJson, "bookmarks", JArr(<<>>)), "highlights", JArr(<<>>)),
           "delete_ids", JArr(<<>>)),
      UserJson }

\* the bodies a JSON endpoint may answer with
JsonBodies == {JInvalid, JNull} \cup Arrays \cup Objects

Bodies(o) == IF o = "authenticate" THEN TextBodies ELSE JsonBodies

-----------------------------------------------------------------------------
(* The calls *)

Init ==
    /\ pc = "idle"
    /\ op = "none"
    /\ args = <<>>
    /\ client = Client("", "", NoneOpt, NoneOpt)
    /\ requests = <<>>
    /\ response = NoResponse
    /\ bodyRead = FALSE
    /\ result = NoResult

\* A call begins: it builds its parameters and, in signed_request, the request,
\* and hands the request to the transport (http_client.execute).
Call(o, a, c, action, params) ==
    /\ pc = "idle"
    /\ pc' = "inflight"
    /\ op' = o
    /\ args' = a
    /\ client' = c
    /\ requests' = <<BuildRequest(action, params, c)>>
    /\ response' = NoResponse
    /\ bodyRead' = FALSE
    /\ result' = NoResult

authenticate(username, password, consumer_key, consumer_secret) ==
    Call("authenticate",
         [username |-> username, password |-> password,
          consumer_key |-> consumer_key, consumer_secret |-> consumer_secret],
         Client(consumer_key, consumer_secret, NoneOpt, NoneOpt),
         "oauth/access_token", AuthParams(username, password))

verify(self) ==
    Call("verify", <<>>, self, "account/verify_credentials", EmptyParams)

archive(self, bookmark_id) ==
    Call("archive", [bookmark_id |-> bookmark_id], self,
         "bookmarks/archive", ArchiveParams(bookmark_id))

bookmarks_in(self, folder) ==
    Call("bookmarks_in", [folder |-> folder], self,
         "bookmarks/list", BookmarksInParams(folder))

\* self.bookmarks_in("unread")
bookmarks(self) ==
    Call("bookmarks", <<>>, self, "bookmarks/list", BookmarksInParams("unread"))

add(self, url, title, description) ==
    Call("add", [url |-> url, title |-> title, description |-> description], self,
         "bookmarks/add", AddParams(url, title, description))

\* the call ends with the error e, by `?` or by returning Err
Fail(e) ==
    LET t == Try(requests, e)
    IN  /\ pc' = t.pc
        /\ requests' = t.requests
        /\ result' = t.result

\* http_client.execute(request)? fails: no response at all
TransportFails ==
    /\ pc = "inflight"
    /\ Fail(Err("TransportError", 0, <<>>))
    /\ UNCHANGED <<op, args, client, response, bodyRead>>

\* http_client.execute(request)?.error_for_status(): a response arrives
Respond ==
    /\ pc = "inflight"
    /\ \E status \in Statuses, body \in Bodies(op) :
          /\ response' = [status |-> status, body |-> body]
          /\ IF error_for_status(status)
             THEN Fail(Err("RequestFailed", status, <<>>))
             ELSE pc' = "decode" /\ UNCHANGED <<requests, result>>
    /\ UNCHANGED <<op, args, client, bodyRead>>

\* response.text()? / response.json()? cannot read the body from the connection
ReadFails ==
    /\ pc = "decode"
    /\ Fail(Err("TransportError", 0, <<>>))
    /\ UNCHANGED <<op, args, client, response, bodyRead>>

\* authenticate, lines 171-185: the body is parsed as a query string
ParseTokens ==
    /\ pc = "decode"
    /\ op = "authenticate"
    /\ bodyRead' = TRUE
    /\ LET pairs == query_params(response.body)
       IN  IF BothTokens(pairs)
           THEN /\ client' = SetOauthKey(client, pairs)
                /\ pc' = "set_secret"
                /\ UNCHANGED <<requests, result>>
           ELSE /\ Fail(Err("AuthResponseIncomplete", 0, IncompleteMessage(response.body)))
                /\ UNCHANGED client
    /\ UNCHANGED <<op, args, response>>

\* authenticate, lines 186-187
ReturnClient ==
    /\ pc = "set_secret"
    /\ client' = SetOauthSecret(client, query_params(response.body))
    /\ result' = Ok(client')
    /\ pc' = "done"
    /\ UNCHANGED <<op, args, requests, response, bodyRead>>

\* the outcome of a dispatch method once the body is read. A panic unwinds the
\* call: it does not return.
Finish(r) ==
    /\ bodyRead' = TRUE
    /\ IF r.kind = "Err" THEN Fail(r)
       ELSE /\ result' = r
            /\ pc' = IF r.kind = "Panic" THEN "panicked" ELSE "done"
            /\ UNCHANGED requests
    /\ UNCHANGED <<op, args, client, response>>

\* verify, archive, add: the tail of the method
DecodeFirst ==
    /\ pc = "decode"
    /\ op \in {"verify", "archive", "add"}
    /\ Finish(DecodeSingle(op, response.body))

\* bookmarks_in (and bookmarks through it): the tail of the method
DecodeWhole ==
    /\ pc = "decode"
    /\ op \in {"bookmarks_in", "bookmarks"}
    /\ Finish(DecodeListBody(response.body))

\* the caller has the outcome; the library keeps nothing of the call
Return ==
    /\ pc = "done"
    /\ pc' = "idle"
    /\ op' = "none"
    /\ args' = <<>>
    /\ client' = Client("", "", NoneOpt, NoneOpt)
    /\ requests' = <<>>
    /\ response' = NoResponse
    /\ bodyRead' = FALSE
    /\ result' = NoResult

Next ==
    \/ \E a \in Logins :
          authenticate(a.username, a.password, a.consumer_key, a.consumer_secret)
    \/ \E c \in Clients : verify(c)
    \/ \E c \in Clients, id \in BookmarkIds : archive(c, id)
    \/ \E c \in Clients, f \in Folders : bookmarks_in(c, f)
    \/ \E c \in Clients : bookmarks(c)
    \/ \E c \in Clients, u \in Urls, t \in Titles, d \in Descriptions : add(c, u, t, d)
    \/ TransportFails
    \/ Respond
    \/ ParseTokens
    \/ ReturnClient
    \/ DecodeFirst
    \/ DecodeWhole
    \/ ReadFails
    \/ Return

Spec == Init /\ [][Next]_vars


-----------------------------------------------------------------------------
(* The claims *)

Success(status)  == status \in 200..299
Finished         == pc \in {"done", "panicked"}
SingleItemOps    == {"verify", "archive", "add"}
ListOps          == {"bookmarks_in", "bookmarks"}
DispatchOps      == SingleItemOps \cup ListOps

\* C1: whatever the action, a response whose status is not in 200..299 (a 1xx
\* or 3xx status as much as a 4xx or 5xx one) ends the call with RequestFailed,
\* whatever the body, and the body is never read or parsed.
C1_NonSuccessIsRequestFailed ==
    (response # NoResponse /\ ~Success(response.status)) =>
        /\ ~bodyRead
        /\ Finished => (result.kind = "Err" /\ result.err = "RequestFailed")

\* C2: verify, archive and add, answered with a 2xx status and the empty JSON
\* array, return a DecodeError; they never panic.
C2_EmptyArrayIsDecodeError ==
    (/\ op \in SingleItemOps
     /\ Finished
     /\ bodyRead
     /\ Success(response.status)
     /\ response.body = JArr(<<>>)) =>
        (result.kind = "Err" /\ result.err = "DecodeError")


\* the fields of each struct and their types, as the structs declare them
BookmarkFields ==
    [title |-> "String", hash |-> "String", bookmark_id |-> "i64",
     progress_timestamp |-> "f64", description |-> "String", url |-> "String",
     time |-> "f64", starred |-> "String", type |-> "String",
     private_source |-> "String"]
UserFields ==
    [username |-> "String", user_id |-> "i64", type |-> "String",
     subscription_is_active |-> "String"]
HighlightFields ==
    [highlight_id |-> "i64", bookmark_id |-> "i64", text |-> "String",
     note |-> "Option<String>", time |-> "i64", position |-> "i64", type |-> "String"]

\* the JSON value v is of the type ty
OfType(v, ty) ==
    CASE ty = "String"         -> v.t = "str"
      [] ty = "i64"            -> v.t = "int"
      [] ty = "f64"            -> v.t \in {"int", "float"}
      [] ty = "Option<String>" -> v.t \in {"str", "null"}

\* the JSON value j is an object with every field of the struct, of its type
\* (an Option field may be missing)
Conforms(j, struct) ==
    /\ j.t = "obj"
    /\ \A f \in DOMAIN struct :
          IF f \in DOMAIN j.fields THEN OfType(j.fields[f], struct[f])
          ELSE struct[f] = "Option<String>"

ArrayOf(j, struct) ==
    j.t = "arr" /\ \A i \in 1..Len(j.items) : Conforms(j.items[i], struct)

\* The shape each method expects of the body: an array of at least one User
\* (verify) or Bookmark (archive, add), of which the first is returned, or the
\* List object (bookmarks_in, bookmarks).
ExpectedShape(o, j) ==
    CASE o = "verify"            -> ArrayOf(j, UserFields) /\ Len(j.items) > 0
      [] o \in {"archive", "add"} -> ArrayOf(j, BookmarkFields) /\ Len(j.items) > 0
      [] OTHER ->
            /\ j.t = "obj"
            /\ {"bookmarks", "user", "highlights"} \subseteq DOMAIN j.fields
            /\ ArrayOf(j.fields["bookmarks"], BookmarkFields)
            /\ Conforms(j.fields["user"], UserFields)
            /\ ArrayOf(j.fields["highlights"], HighlightFields)
            /\ "delete_ids" \in DOMAIN j.fields =>
                   /\ j.fields["delete_ids"].t = "arr"
                   /\ \A i \in 1..Len(j.fields["delete_ids"].items) :
                          j.fields["delete_ids"].items[i].t = "int"

\* the value v holds every field of the JSON object j, under the struct's names
Holds(v, j, struct) ==
    \A f \in DOMAIN struct :
        LET name == CASE f = "type" -> "kind"
                      [] f = "subscription_is_active" -> "subscription"
                      [] OTHER -> f
        IN  /\ name \in DOMAIN v
            /\ CASE struct[f] = "String" -> v[name] = j.fields[f].s
                 [] struct[f] = "i64"    -> v[name] = j.fields[f].n
                 [] struct[f] = "f64"    ->
                        v[name] = [int |-> j.fields[f].t = "int", n |-> j.fields[f].n,
                                   text |-> j.fields[f].s]
                 [] OTHER ->
                        v[name] = IF f \in DOMAIN j.fields /\ j.fields[f].t = "str"
                                  THEN Some(j.fields[f].s) ELSE NoneOpt

HoldsAll(vs, j, struct) ==
    /\ Len(vs) = Len(j.items)
    /\ \A i \in 1..Len(vs) : Holds(vs[i], j.items[i], struct)

\* the value a call returned is the body, decoded in full
FullyDecoded(o, v, j) ==
    CASE o = "verify"            -> Holds(v, j.items[1], UserFields)
      [] o \in {"archive", "add"} -> Holds(v, j.items[1], BookmarkFields)
      [] OTHER ->
            /\ DOMAIN v = {"bookmarks", "user", "highlights", "delete_ids"}
            /\ HoldsAll(v.bookmarks, j.fields["bookmarks"], BookmarkFields)
            /\ Holds(v.user, j.fields["user"], UserFields)
            /\ HoldsAll(v.highlights, j.fields["highlights"], HighlightFields)
            /\ v.delete_ids =
                  IF "delete_ids" \in DOMAIN j.fields
                  THEN [i \in 1..Len(j.fields["delete_ids"].items) |->
                           j.fields["delete_ids"].items[i].n]
                  ELSE <<>>

\* C3: a dispatch method (verify, archive, add, bookmarks_in, bookmarks) whose
\* 2xx response carries a body that is not valid JSON of the expected shape
\* returns a DecodeError and no value; the outcome of every call is either a
\* value decoded in full from the body or an error with no value, never a
\* default or a partly filled value.
C3_BadBodyIsDecodeError ==
    (op \in DispatchOps /\ Finished) =>
        /\ (bodyRead /\ Success(response.status) /\ ~ExpectedShape(op, response.body)) =>
               result = Err("DecodeError", 0, <<>>)
        /\ \/ /\ result.kind = "Ok"
              /\ ExpectedShape(op, response.body)
              /\ FullyDecoded(op, result.value, response.body)
           \/ /\ result.kind = "Err"
              /\ result.value = NoValue

\* What does hold of the decoding: the same statement for every body but the
\* empty array of the single-item methods (the case of C2).
DecodeErrorUnlessEmptyArray ==
    (op \in SingleItemOps /\ response.body = JArr(<<>>)) \/ C3_BadBodyIsDecodeError

\* The body read as a URL query string: what stands before the first "#", cut
\* at every "&".
FieldsOf(body) ==
    LET h == FirstIdx(body, "#")
    IN  Split(IF h = 0 THEN body ELSE SubSeq(body, 1, h - 1), "&")

\* the piece is the field named k: "k" alone, or "k=..."
Named(piece, k) ==
    /\ piece # <<>>
    /\ piece[1] = k
    /\ Len(piece) > 1 => piece[2] = "="

\* a text that stands for itself: no delimiter, nothing to decode
PlainText(v) ==
    \A i \in 1..Len(v) : v[i] \notin {"&", "=", "#", "+", " ", "\n", "%23"}

\* the piece is "k=v" with a plain text v
FieldIs(piece, k, v) == piece = <<k, "=">> \o v /\ PlainText(v)

\* the body names k exactly once, as "k=v"
OnlyFieldIs(body, k, v) ==
    LET ps == FieldsOf(body)
    IN  /\ \E i \in 1..Len(ps) : FieldIs(ps[i], k, v)
        /\ Cardinality({i \in 1..Len(ps) : Named(ps[i], k)}) = 1

\* the texts a token of a body of the model may be
TokenTexts == {<<>>, <<"token">>, <<"secret">>, <<"1">>}

Contains(m, t) ==
    \E i \in 0..(Len(m) - Len(t)) : SubSeq(m, i + 1, i + Len(t)) = t

HasField(body, k) == \E i \in 1..Len(FieldsOf(body)) : Named(FieldsOf(body)[i], k)

\* C5: when the 2xx answer to the token exchange lacks oauth_token or
\* oauth_token_secret (one is missing, both are, or the body has no "=" at
\* all), authenticate fails with AuthResponseIncomplete, the message holds the
\* text of the body, and no Client is returned.
C5_IncompleteIsRefused ==
    (/\ op = "authenticate"
     /\ pc = "done"
     /\ bodyRead
     /\ Success(response.status)
     /\ \/ ~HasField(response.body, "oauth_token")
        \/ ~HasField(response.body, "oauth_token_secret")
        \/ FirstIdx(response.body, "=") = 0) =>
        /\ result.kind = "Err"
        /\ result.err = "AuthResponseIncomplete"
        /\ Contains(result.msg, response.body)
        /\ result.value = NoValue


\* C6: the parameters add(url, title, description) sends always hold url, hold
\* title exactly when title is not empty, hold description exactly when
\* description is not empty, and hold nothing else; the form body and the
\* signature are made from the same parameters.
C6_AddParameters ==
    (op = "add" /\ pc # "idle") =>
        /\ Len(requests) = 1
        /\ LET form == requests[1].form
           IN  /\ "url" \in DOMAIN form /\ form["url"] = args.url
               /\ "title" \in DOMAIN form <=> args.title # ""
               /\ "title" \in DOMAIN form => form["title"] = args.title
               /\ "description" \in DOMAIN form <=> args.description # ""
               /\ "description" \in DOMAIN form => form["description"] = args.description
               /\ DOMAIN form \subseteq {"url", "title", "description"}
               /\ requests[1].authorization.params = form

\* add(url, "How I Read", "") is on its way with url and title only
C6_Witness ==
    /\ op = "add" /\ pc = "inflight"
    /\ args.title = "How I Read" /\ args.description = ""
    /\ DOMAIN requests[1].form = {"url", "title"}

BothOrNeither(c) == c.oauth_key.some <=> c.oauth_secret.some

\* C8 as claimed: every Client, at every point, has oauth_key present exactly
\* when oauth_secret is present.
C8_KeyIffSecret == BothOrNeither(client)

\* C8 as amended: authenticate signs its request with a Client that has
\* neither oauth field, and the Client it returns has both.
C8_AuthenticateSetsBoth ==
    (op = "authenticate") =>
        /\ pc \in {"inflight", "decode"} =>
               (~client.oauth_key.some /\ ~client.oauth_secret.some)
        /\ result.kind = "Ok" =>
               (result.value.oauth_key.some /\ result.value.oauth_secret.some)
        /\ Finished => BothOrNeither(client)

\* authenticate has returned a Client
C8_Witness ==
    op = "authenticate" /\ pc = "done" /\ result.kind = "Ok" /\ result.value = client

\* C9: bookmarks() sends what bookmarks_in("unread") sends and returns what it
\* returns; bookmarks_in(folder) posts limit="500" and folder_id=folder, and
\* nothing else, to bookmarks/list, and on a 2xx answer that is a List returns
\* that List as decoded (the body is the object itself, not an array), its
\* delete_ids empty when the body has none.
C9_BookmarksList ==
    (op \in ListOps /\ pc # "idle") =>
        LET folder == IF op = "bookmarks" THEN "unread" ELSE args.folder
            body   == response.body
        IN  /\ Len(requests) = 1
            /\ requests[1].method = "POST"
            /\ requests[1].url = <<URL, "/api/1.1/", "bookmarks/list">>
            /\ requests[1].form = [k \in {"limit", "folder_id"} |->
                                      IF k = "limit" THEN "500" ELSE folder]
            /\ (pc = "done" /\ bodyRead /\ Success(response.status)) =>
                  IF ExpectedShape("bookmarks_in", body)
                  THEN /\ result.kind = "Ok"
                       /\ FullyDecoded("bookmarks_in", result.value, body)
                       /\ "delete_ids" \notin DOMAIN body.fields =>
                              result.value.delete_ids = <<>>
                  ELSE result.kind = "Err"

\* bookmarks() returned a List whose body had no delete_ids
C9_Witness ==
    /\ op = "bookmarks" /\ pc = "done" /\ result.kind = "Ok"
    /\ "delete_ids" \notin DOMAIN response.body.fields
    /\ Len(result.value.bookmarks) = 1
    /\ result.value.delete_ids = <<>>

====
